---- MODULE Spec2Model ----
(* Job lifecycle, memory-bounded retention and message dispatch of          *)
(* ai_diffusion/ui/model.py (Job, JobQueue, Model, ModelRegistry).          *)
(* One Model (one open document) and the process-wide ModelRegistry.        *)
EXTENDS Integers, Sequences, FiniteSets, TLC

(* ------------------------------ bounds --------------------------------- *)
\* submissions (generate / generate_control_layer calls that create a task)
MaxSubs == 2
\* messages the dispatch task takes from the stream
MaxMsgs == 2
\* state-change notifications of the connection
MaxConnChanges == 4
\* layers of the document up to which the user asks for a preview
MaxLayers == 2

(* ------------------------- program constants --------------------------- *)
\* settings.history_size, the retention ceiling in MB
HistorySize == 100
\* footprints (MB) of the non-empty result collections a finished message carries
ResultSizes == {80, 90, 120}
\* the value a progress message carries (percent)
ProgressValues == {50}

None == 0
\* Document.active_layer: the node the document reports as active
ActiveLayer == -1

\* class State(Flag)
State == {"queued", "executing", "finished", "cancelled"}
\* class JobKind(Enum)
JobKind == {"diffusion", "control_layer"}
\* ConnectionState as used by the registry: connected, disconnected, anything else
ConnectionState == {"disconnected", "connected", "error"}
\* ClientEvent
ClientEvent == {"progress", "finished", "interrupted", "error"}
\* the control specs of the Model (Model.control), by reference
Controls == {1}
\* regions: the image bounds computed for a submission, and the bounds of a mask
ImageBounds == "image_bounds"
MaskBounds == "mask_bounds"
DocumentBounds == "document_bounds"

\* ImageCollection: number of images and size in MB
EmptyResults == [n |-> 0, size |-> 0]
Results == {EmptyResults} \cup {[n |-> 1, size |-> s] : s \in ResultSizes}

\* error texts of Model.error
NoError == ""
ColorModeError == "Incompatible document"
NetworkErrorText == "network error [url, code]"
ExceptionText == "exception"
ServerErrorText == "Server execution error"

VARIABLES
    entries,        \* JobQueue._entries: the deque of Jobs, oldest first
    memory_usage,   \* JobQueue._memory_usage (MB)
    progress,       \* Model.progress (percent)
    error,          \* Model.error
    layer,          \* Model._layer: index into layers, or None
    layers,         \* the nodes created in the document by insert_layer
    controls,       \* Control.image of each control spec
    subs,           \* submission tasks started by eventloop.run, not yet done
    nextSub,        \* number of the next submission (identity of its Job)
    nextId,         \* next job id the server assigns
    conn,           \* Connection.state
    task,           \* ModelRegistry._task: a dispatch task, or None
    tasks,          \* control state of each dispatch task
    nMsgs,          \* messages taken from the stream so far
    nConn,          \* connection notifications so far
    order,          \* history: object identities of the Jobs in insertion order
    evicted,        \* history: the Jobs popped by prune, as they were when popped
    removed,        \* history: Jobs removed by JobQueue.remove
    last            \* history: the operation that ran last and what it did

vars == <<entries, memory_usage, progress, error, layer, layers, controls, subs,
          nextSub, nextId, conn, task, tasks, nMsgs, nConn, order, evicted,
          removed, last>>

queueVars == <<entries, memory_usage>>
modelVars == <<progress, error, layer, layers, controls>>
subVars == <<subs, nextSub, nextId>>
registryVars == <<conn, task, tasks, nConn>>
histVars == <<order, evicted, removed>>

(* ------------------------------- Job ----------------------------------- *)
\* Job.__init__: state queued, empty results; uid is the object's identity
Job(uid, id, kind, bounds, control) ==
    [uid |-> uid, id |-> id, kind |-> kind, state |-> "queued", bounds |-> bounds,
     control |-> control, results |-> EmptyResults]

Uids(es) == {es[i].uid : i \in 1..Len(es)}

IndexOf(es, uid) ==
    IF uid \in Uids(es) THEN CHOOSE i \in 1..Len(es) : es[i].uid = uid ELSE 0

(* ----------------------------- JobQueue -------------------------------- *)
\* add that coalesces: no new Job while a queued diffusion Job covers the same region
add_coalescing(es, uid, id, bounds) ==
    IF \E i \in 1..Len(es) : es[i].kind = "diffusion" /\ es[i].state = "queued"
                              /\ es[i].bounds = bounds
    THEN es
    ELSE Append(es, [uid |-> uid, id |-> id, kind |-> "diffusion", state |-> "queued",
                     bounds |-> bounds, control |-> None, results |-> EmptyResults])

\* JobQueue.add
add(es, uid, id, bounds) == Append(es, Job(uid, id, "diffusion", bounds, None))

\* JobQueue.add_control: id unset, back-reference to the control spec
add_control(es, uid, control, bounds) ==
    Append(es, Job(uid, None, "control_layer", bounds, control))

\* JobQueue.remove: deque.remove of the job (by identity)
remove(es, uid) == SelectSeq(es, LAMBDA j : j.uid # uid)

\* JobQueue.find for a string id: next((j for j in entries if j.id == id), None), as
\* the index of the first such job (0 for None)
FindById(es, id) ==
    IF \E i \in 1..Len(es) : es[i].id = id
    THEN CHOOSE i \in 1..Len(es) :
            es[i].id = id /\ \A k \in 1..(i - 1) : es[k].id # id
    ELSE 0

\* find for a Control with the identity test inverted (is not)
FindByControl_inverted(es, c) ==
    IF \E i \in 1..Len(es) : es[i].control # c
    THEN CHOOSE i \in 1..Len(es) :
            es[i].control # c /\ \A k \in 1..(i - 1) : es[k].control = c
    ELSE 0

\* JobQueue.find for a Control: next((j for j in entries if j.control is id), None)
FindByControl(es, c) ==
    IF \E i \in 1..Len(es) : es[i].control = c
    THEN CHOOSE i \in 1..Len(es) :
            es[i].control = c /\ \A k \in 1..(i - 1) : es[k].control # c
    ELSE 0

\* JobQueue.find: key is [type |-> "str" | "control", v |-> value]
find(es, key) ==
    IF key.type = "str" THEN FindById(es, key.v) ELSE FindByControl(es, key.v)

\* JobQueue.count
count(es, state) == Cardinality({i \in 1..Len(es) : es[i].state = state})

\* JobQueue.any_executing
any_executing(es) == \E i \in 1..Len(es) : es[i].state = "executing"

\* prune without the test for keep: pops until the footprint fits
RECURSIVE prune_without_keep(_, _, _)
prune_without_keep(es, mem, keep) ==
    IF mem > HistorySize /\ es # <<>>
    THEN prune_without_keep(Tail(es), mem - Head(es).results.size, keep)
    ELSE [entries |-> es, memory_usage |-> mem]

\* prune with pop() for popleft(): discards the newest entry
RECURSIVE prune_pop_right(_, _, _)
prune_pop_right(es, mem, keep) ==
    IF mem > HistorySize /\ Head(es).uid # keep
    THEN prune_pop_right(SubSeq(es, 1, Len(es) - 1), mem - es[Len(es)].results.size,
                         keep)
    ELSE [entries |-> es, memory_usage |-> mem]

\* JobQueue.prune: pop from the left while over the ceiling and the head is not keep
RECURSIVE prune(_, _, _)
prune(es, mem, keep) ==
    IF mem > HistorySize /\ Head(es).uid # keep
    THEN prune(Tail(es), mem - Head(es).results.size, keep)
    ELSE [entries |-> es, memory_usage |-> mem]

\* JobQueue.set_results on the job at index i
set_results(es, mem, i, results) ==
    LET es1 == [es EXCEPT ![i].results = results] IN
    IF es[i].kind = "diffusion"
    THEN prune(es1, mem + results.size, es[i].uid)
    ELSE [entries |-> es1, memory_usage |-> mem]


(* ------------------------------ history -------------------------------- *)
\* what the last operation was: its name, the Job (identity) or task it was about (the
\* job id of a dropped message), whether it ended by raising, and the signals it
\* emitted
Did(op, job, raised, signals) ==
    [op |-> op, job |-> job, raised |-> raised, signals |-> signals]

\* the same for a handled message, with the state the Job was in when it arrived
Handled(op, job, raised, signals) ==
    [op |-> op, job |-> job.uid, raised |-> raised, signals |-> signals,
     from |-> job.state]

(* ------------------------------- Init ---------------------------------- *)
\* JobQueue.__init__, Model.__init__ and the class defaults, ModelRegistry.__init__
Init ==
    /\ entries = <<>>
    /\ memory_usage = 0
    /\ progress = 0
    /\ error = NoError
    /\ layer = None
    /\ layers = <<>>
    /\ controls = [c \in Controls |-> None]
    /\ subs = {}
    /\ nextSub = 1
    /\ nextId = 1
    /\ conn = "disconnected"
    /\ task = None
    /\ tasks = <<>>
    /\ nMsgs = 0
    /\ nConn = 0
    /\ order = <<>>
    /\ evicted = {}
    /\ removed = {}
    /\ last = Did("init", None, FALSE, {})

(* ------------------------ Model: error reporting ----------------------- *)
\* _report_errors: the text handed to report_error for a NetworkError or any other
\* exception
ReportedText(network) == IF network THEN NetworkErrorText ELSE ExceptionText

(* ------------------------- Model: submission --------------------------- *)
\* Model.generate up to eventloop.run. ok: check_color_mode; gathered: the document
\* calls (create_mask_from_selection, get_image, _get_control_image) return;
\* has_mask: the document has a selection
generate(ok, gathered, has_mask) ==
    /\ nextSub <= MaxSubs
    /\ IF ~ok
       THEN /\ error' = ColorModeError
            /\ last' = Did("generate", None, FALSE, {"changed"})
            /\ UNCHANGED <<subs, nextSub>>
       ELSE IF ~gathered
       THEN \* the exception leaves generate(): nothing catches it there
            /\ last' = Did("generate", None, TRUE, {})
            /\ UNCHANGED <<error, subs, nextSub>>
       ELSE /\ error' = NoError
            /\ subs' = subs \cup {[n |-> nextSub, kind |-> "diffusion", pc |-> "start",
                                   bounds |-> ImageBounds, mask |-> has_mask,
                                   job |-> None, sid |-> None]}
            /\ nextSub' = nextSub + 1
            /\ last' = Did("generate", nextSub, FALSE,
                           IF error # NoError THEN {"changed"} ELSE {})
    /\ UNCHANGED <<queueVars, progress, layer, layers, controls, nextId, registryVars,
                   nMsgs, histVars>>

\* Model.generate_control_layer up to eventloop.run: the Job is appended before the
\* task is started
generate_control_layer(c, ok, gathered) ==
    /\ nextSub <= MaxSubs
    /\ IF ~ok
       THEN /\ error' = ColorModeError
            /\ last' = Did("generate_control_layer", None, FALSE, {"changed"})
            /\ UNCHANGED <<entries, subs, nextSub, order>>
       ELSE IF ~gathered
       THEN /\ last' = Did("generate_control_layer", None, TRUE, {})
            /\ UNCHANGED <<entries, error, subs, nextSub, order>>
       ELSE /\ entries' = add_control(entries, nextSub, c, DocumentBounds)
            /\ order' = Append(order, nextSub)
            /\ error' = NoError
            /\ subs' = subs \cup {[n |-> nextSub, kind |-> "control_layer",
                                   pc |-> "start", bounds |-> DocumentBounds,
                                   mask |-> FALSE, job |-> nextSub, sid |-> None]}
            /\ nextSub' = nextSub + 1
            /\ last' = Did("generate_control_layer", nextSub, FALSE,
                           IF error # NoError THEN {"changed"} ELSE {})
    /\ UNCHANGED <<memory_usage, progress, layer, layers, controls, nextId,
                   registryVars, nMsgs, evicted, removed>>

\* Model._generate / Model._generate_control_layer from their start to the await of
\* client.enqueue, under _report_errors. built: the workflow call returns
run_submission(s, built) ==
    /\ s \in subs /\ s.pc = "start"
    /\ IF conn # "connected"
       THEN \* the assert fails; _report_errors reports it
            /\ error' = ReportedText(FALSE)
            /\ subs' = subs \ {s}
            /\ last' = Did("assert_failed", s.n, TRUE, {"changed"})
            /\ UNCHANGED <<progress, nextId>>
       ELSE /\ progress' = IF s.kind = "diffusion" /\ ~any_executing(entries)
                           THEN 0 ELSE progress
            /\ IF ~built
               THEN /\ error' = ReportedText(FALSE)
                    /\ subs' = subs \ {s}
                    /\ last' = Did("build_failed", s.n, TRUE, {"changed"})
                    /\ UNCHANGED nextId
               ELSE /\ subs' = (subs \ {s}) \cup
                                {[s EXCEPT !.pc = "await", !.sid = nextId,
                                           !.bounds = IF s.mask THEN MaskBounds
                                                      ELSE s.bounds]}
                    /\ nextId' = nextId + 1
                    /\ last' = Did("enqueue_sent", s.n, FALSE,
                                   IF s.kind = "diffusion" /\ ~any_executing(entries)
                                   THEN {"changed"} ELSE {})
                    /\ UNCHANGED error
    /\ UNCHANGED <<queueVars, layer, layers, controls, nextSub, registryVars, nMsgs,
                   histVars>>

\* client.enqueue returns the job id: the rest of _generate (jobs.add) or of
\* _generate_control_layer (job.id = ...)
enqueue_returns(s) ==
    /\ s \in subs /\ s.pc = "await"
    /\ IF s.kind = "diffusion"
       THEN /\ entries' = add(entries, s.n, s.sid, s.bounds)
            /\ order' = Append(order, s.n)
       ELSE /\ entries' = IF s.job \in Uids(entries)
                          THEN [entries EXCEPT ![IndexOf(entries, s.job)].id = s.sid]
                          ELSE entries
            /\ UNCHANGED order
    /\ subs' = subs \ {s}
    /\ last' = Did("enqueued", s.n, FALSE, {"changed"})
    /\ UNCHANGED <<memory_usage, modelVars, nextSub, nextId, registryVars, nMsgs,
                   evicted, removed>>

\* client.enqueue raises (a NetworkError or another exception): _report_errors
enqueue_raises(s, network) ==
    /\ s \in subs /\ s.pc = "await"
    /\ error' = ReportedText(network)
    /\ subs' = subs \ {s}
    /\ last' = Did("enqueue_failed", s.n, TRUE, {"changed"})
    /\ UNCHANGED <<queueVars, progress, layer, layers, controls, nextSub, nextId,
                   registryVars, nMsgs, histVars>>

(* --------------------------- Document layers --------------------------- *)
\* Document.insert_layer. A node is created visible, unlocked and attached to the root;
\* looking up `below` among the root's children raises when it is not one of them
insert_layer(lyrs, name, content, below) ==
    IF below # None /\ ~lyrs[below].attached
    THEN [raised |-> TRUE, layer |-> None, layers |-> lyrs]
    ELSE [raised |-> FALSE, layer |-> Len(lyrs) + 1,
          layers |-> Append(lyrs, [name |-> name, content |-> content, locked |-> FALSE,
                                   visible |-> TRUE, attached |-> TRUE])]

\* Document.set_layer_content
set_layer_content(lyrs, l, content) ==
    [lyrs EXCEPT ![l].content = content, ![l].visible = TRUE]

\* Document.hide_layer
hide_layer(lyrs, l) == [lyrs EXCEPT ![l].visible = FALSE]

(* --------------------------- Model: preview ---------------------------- *)
\* Model.show_preview(job_id, index) on queue es, preview reference lyr and document
\* layers lyrs. Raises when the job is unknown or has no result with that index
show_preview(es, lyr, lyrs, job_id, index) ==
    LET i == find(es, [type |-> "str", v |-> job_id])
        lyr1 == IF lyr # None /\ ~lyrs[lyr].attached THEN None ELSE lyr
    IN  IF i = 0
        THEN [raised |-> TRUE, layer |-> lyr, layers |-> lyrs]
        ELSE IF lyr1 # None
        THEN LET named == [lyrs EXCEPT ![lyr1].name = "Preview"] IN
             IF index >= es[i].results.n
             THEN [raised |-> TRUE, layer |-> lyr1, layers |-> named]
             ELSE [raised |-> FALSE, layer |-> lyr1,
                   layers |-> set_layer_content(named, lyr1, es[i].uid)]
        ELSE IF index >= es[i].results.n
        THEN [raised |-> TRUE, layer |-> lyr1, layers |-> lyrs]
        ELSE LET ins == insert_layer(lyrs, "Preview", es[i].uid, None) IN
             [raised |-> FALSE, layer |-> ins.layer,
              layers |-> [ins.layers EXCEPT ![ins.layer].locked = TRUE]]

\* Model.add_control_layer: a layer made from the first result, below the preview; the
\* document's active layer when the execution produced no image
add_control_layer(job, lyr, lyrs) ==
    IF job.results.n > 0
    THEN insert_layer(lyrs, "Control", job.uid, lyr)
    ELSE [raised |-> FALSE, layer |-> ActiveLayer, layers |-> lyrs]

(* ----------------------- Model: server messages ------------------------ *)
\* ClientMessage: job id, event and the payload of the event
Messages ==
    [job_id : 1..(MaxSubs + 1), event : {"progress"}, progress : ProgressValues,
     images : {EmptyResults}]
    \cup [job_id : 1..(MaxSubs + 1), event : {"finished"}, progress : {0},
          images : Results]
    \cup [job_id : 1..(MaxSubs + 1), event : {"interrupted", "error"}, progress : {0},
          images : {EmptyResults}]

\* the finished branch of Model.handle_message for the job at index i, as the values
\* the Model's state takes: raised tells whether the handler ended by an exception
\* (what it assigned before stays)
handle_finished(i, msg) ==
    LET job == entries[i]
        es1 == [entries EXCEPT ![i].state = "finished"]
        q == set_results(es1, memory_usage, i, msg.images)
        k == IndexOf(q.entries, job.uid)
        done == q.entries[k]
        pre == IF job.kind = "diffusion" /\ layer = None
               THEN show_preview(q.entries, layer, layers, job.id, 0)
               ELSE [raised |-> FALSE, layer |-> layer, layers |-> layers]
        ctl == add_control_layer(done, pre.layer, pre.layers)
        is_control == job.kind = "control_layer" /\ ~pre.raised
        raised == pre.raised \/ (is_control /\ ctl.raised)
    IN  [raised |-> raised,
         entries |-> IF is_control /\ ~ctl.raised THEN remove(q.entries, job.uid)
                     ELSE q.entries,
         memory_usage |-> q.memory_usage,
         evicted |-> {es1[n] : n \in {m \in 1..Len(es1) : es1[m].uid \notin Uids(q.entries)}},
         removed |-> IF is_control /\ ~ctl.raised THEN {job.uid} ELSE {},
         layer |-> pre.layer,
         layers |-> IF is_control /\ ~ctl.raised THEN ctl.layers ELSE pre.layers,
         controls |-> IF is_control /\ ~ctl.raised
                      THEN [controls EXCEPT ![job.control] = ctl.layer]
                      ELSE controls,
         signals |-> (IF pre.layer # layer \/ (job.kind = "diffusion" /\ layer = None
                                                /\ ~pre.raised)
                      THEN {"changed"} ELSE {})
                     \cup (IF raised THEN {} ELSE {"job_finished", "changed"})]

\* the progress branch of Model.handle_message for the job at index i
on_progress(t, i, msg) ==
    /\ entries' = [entries EXCEPT ![i].state = "executing"]
    /\ progress' = msg.progress
    /\ last' = Handled("progress", entries[i], FALSE, {"progress_changed"})
    /\ UNCHANGED <<memory_usage, error, layer, layers, controls, tasks, evicted,
                   removed>>

\* the finished branch of Model.handle_message. An exception leaves handle_message
\* and the message loop of dispatch task t, _report_errors hands it to
\* ModelRegistry.report_error and the task goes to its backoff sleep
on_finished(t, i, msg) ==
    LET r == handle_finished(i, msg) IN
    /\ entries' = r.entries
    /\ memory_usage' = r.memory_usage
    /\ progress' = 100
    /\ layer' = r.layer
    /\ layers' = r.layers
    /\ controls' = r.controls
    /\ evicted' = evicted \cup r.evicted
    /\ removed' = removed \cup r.removed
    /\ error' = IF r.raised THEN ReportedText(FALSE) ELSE error
    /\ tasks' = IF r.raised THEN [tasks EXCEPT ![t] = "sleep"] ELSE tasks
    /\ last' = Handled("finished", entries[i], r.raised,
                       r.signals \cup (IF r.raised THEN {"changed"} ELSE {}))

\* the interrupted branch that leaves Model.progress as it is
on_interrupted_keeps_progress(t, i, msg) ==
    /\ entries' = [entries EXCEPT ![i].state = "cancelled"]
    /\ last' = Handled("interrupted", entries[i], FALSE, {"progress_changed"})
    /\ UNCHANGED <<memory_usage, progress, error, layer, layers, controls, tasks,
                   evicted, removed>>

\* the interrupted branch of Model.handle_message
on_interrupted(t, i, msg) ==
    /\ entries' = [entries EXCEPT ![i].state = "cancelled"]
    /\ progress' = 0
    /\ last' = Handled("interrupted", entries[i], FALSE, {"progress_changed"})
    /\ UNCHANGED <<memory_usage, error, layer, layers, controls, tasks, evicted,
                   removed>>

\* the error branch of Model.handle_message
on_error(t, i, msg) ==
    /\ entries' = [entries EXCEPT ![i].state = "cancelled"]
    /\ error' = ServerErrorText
    /\ last' = Handled("error", entries[i], FALSE, {"changed"})
    /\ UNCHANGED <<memory_usage, progress, layer, layers, controls, tasks, evicted,
                   removed>>

\* Model.handle_message for the job at index i of the queue, in dispatch task t
handle_message(t, i, msg) ==
    CASE msg.event = "progress" -> on_progress(t, i, msg)
      [] msg.event = "finished" -> on_finished(t, i, msg)
      [] msg.event = "interrupted" -> on_interrupted(t, i, msg)
      [] msg.event = "error" -> on_error(t, i, msg)

(* --------------------------- ModelRegistry ----------------------------- *)
\* the closure without the test `self._task is None`: a task for every notification
\* of the connected state
connection_changed_unguarded(state) ==
    /\ nConn < MaxConnChanges
    /\ nConn' = nConn + 1
    /\ conn' = state
    /\ IF state = "connected"
       THEN /\ tasks' = Append(tasks, "listen")
            /\ task' = Len(tasks) + 1
       ELSE IF task # None /\ state = "disconnected"
       THEN /\ tasks' = [tasks EXCEPT ![task] = "cancelled"]
            /\ task' = None
       ELSE UNCHANGED <<task, tasks>>
    /\ last' = Did("connection_changed", None, FALSE, {})
    /\ UNCHANGED <<queueVars, modelVars, subVars, nMsgs, histVars>>

\* the handle_messages closure of ModelRegistry.__init__, connected to
\* Connection.changed: the connection is now in `state`
connection_changed(state) ==
    /\ nConn < MaxConnChanges
    /\ nConn' = nConn + 1
    /\ conn' = state
    /\ IF task = None /\ state = "connected"
       THEN /\ tasks' = Append(tasks, "listen")
            /\ task' = Len(tasks) + 1
       ELSE IF task # None /\ state = "disconnected"
       THEN /\ tasks' = [tasks EXCEPT ![task] = "cancelled"]
            /\ task' = None
       ELSE UNCHANGED <<task, tasks>>
    /\ last' = Did("connection_changed", None, FALSE, {})
    /\ UNCHANGED <<queueVars, modelVars, subVars, nMsgs, histVars>>

\* a message loop without the test `if model is not None`: handle_message is called
\* for every message and its assert fails for a job no Model owns
receive_unfiltered(t, msg) ==
    /\ t \in 1..Len(tasks) /\ tasks[t] = "listen"
    /\ nMsgs < MaxMsgs
    /\ msg.job_id < nextId
    /\ nMsgs' = nMsgs + 1
    /\ LET i == find(entries, [type |-> "str", v |-> msg.job_id]) IN
       IF i = 0
       THEN /\ error' = ReportedText(FALSE)
            /\ tasks' = [tasks EXCEPT ![t] = "sleep"]
            /\ last' = Did("dropped", msg.job_id, TRUE, {"changed"})
            /\ UNCHANGED <<queueVars, progress, layer, layers, controls, evicted,
                           removed>>
       ELSE handle_message(t, i, msg)
    /\ UNCHANGED <<subVars, conn, task, nConn, order>>

\* one turn of the async for of ModelRegistry._handle_messages_impl in dispatch task
\* t: _find_model, and handle_message when a Model owns the job id
receive(t, msg) ==
    /\ t \in 1..Len(tasks) /\ tasks[t] = "listen"
    /\ nMsgs < MaxMsgs
    /\ msg.job_id < nextId
    /\ nMsgs' = nMsgs + 1
    /\ LET i == find(entries, [type |-> "str", v |-> msg.job_id]) IN
       IF i = 0
       THEN /\ last' = Did("dropped", msg.job_id, FALSE, {})
            /\ UNCHANGED <<queueVars, modelVars, tasks, evicted, removed>>
       ELSE handle_message(t, i, msg)
    /\ UNCHANGED <<subVars, conn, task, nConn, order>>

\* client.listen() raises in dispatch task t: _report_errors reports to every Model,
\* then the task sleeps
stream_raises(t, network) ==
    /\ t \in 1..Len(tasks) /\ tasks[t] = "listen"
    /\ error' = ReportedText(network)
    /\ tasks' = [tasks EXCEPT ![t] = "sleep"]
    /\ last' = Did("stream_raised", t, TRUE, {"changed"})
    /\ UNCHANGED <<queueVars, progress, layer, layers, controls, subVars, conn, task,
                   nMsgs, nConn, histVars>>

\* the stream of client.listen() ends: _handle_messages_impl returns, the task sleeps
stream_ends(t) ==
    /\ t \in 1..Len(tasks) /\ tasks[t] = "listen"
    /\ tasks' = [tasks EXCEPT ![t] = "sleep"]
    /\ last' = Did("stream_ended", t, FALSE, {})
    /\ UNCHANGED <<queueVars, modelVars, subVars, conn, task, nMsgs, nConn, histVars>>

\* _handle_messages without `while True`: the task returns after its first backoff
backoff_elapsed_once(t) ==
    /\ t \in 1..Len(tasks) /\ tasks[t] = "sleep"
    /\ tasks' = [tasks EXCEPT ![t] = "cancelled"]
    /\ last' = Did("returned", t, FALSE, {})
    /\ UNCHANGED <<queueVars, modelVars, subVars, conn, task, nMsgs, nConn, histVars>>

\* asyncio.sleep(5) is over in dispatch task t: _handle_messages_impl starts again;
\* its assert fails when the connection is not connected
backoff_elapsed(t) ==
    /\ t \in 1..Len(tasks) /\ tasks[t] = "sleep"
    /\ IF conn = "connected"
       THEN /\ tasks' = [tasks EXCEPT ![t] = "listen"]
            /\ last' = Did("listening", t, FALSE, {})
            /\ UNCHANGED error
       ELSE /\ error' = ReportedText(FALSE)
            /\ last' = Did("stream_raised", t, TRUE, {"changed"})
            /\ UNCHANGED tasks
    /\ UNCHANGED <<queueVars, progress, layer, layers, controls, subVars, conn, task,
                   nMsgs, nConn, histVars>>

(* ----------------------- Model: user operations ------------------------ *)
\* cancel() that also marks the executing jobs cancelled, without waiting for the server
cancel_marking_jobs ==
    /\ entries' = [i \in 1..Len(entries) |->
                      IF entries[i].state = "executing"
                      THEN [entries[i] EXCEPT !.state = "cancelled"] ELSE entries[i]]
    /\ last' = Did("cancel", None, FALSE, {})
    /\ UNCHANGED <<memory_usage, modelVars, subVars, registryVars, nMsgs, histVars>>

\* Model.cancel: Connection.interrupt() asks the server to stop; the Model and its
\* jobs are left as they are
cancel ==
    /\ last' = Did("cancel", None, FALSE, {})
    /\ UNCHANGED <<queueVars, modelVars, subVars, registryVars, nMsgs, histVars>>

\* the user asks for the preview of result `index` of the job with id job_id:
\* Model.show_preview called from the user interface
call_show_preview(job_id, index) ==
    /\ Len(layers) < MaxLayers
    /\ LET r == show_preview(entries, layer, layers, job_id, index)
           i == find(entries, [type |-> "str", v |-> job_id])
       IN  /\ layer' = r.layer
           /\ layers' = r.layers
           /\ last' = Did("show_preview", IF i = 0 THEN None ELSE entries[i].uid,
                          r.raised, IF r.raised THEN {} ELSE {"changed"})
    /\ UNCHANGED <<queueVars, progress, error, controls, subVars, registryVars, nMsgs,
                   histVars>>

\* Model.hide_preview
hide_preview ==
    /\ IF layer # None
       THEN /\ layers' = hide_layer(layers, layer)
            /\ last' = Did("hide_preview", None, FALSE, {"changed"})
       ELSE /\ last' = Did("hide_preview", None, FALSE, {})
            /\ UNCHANGED layers
    /\ UNCHANGED <<queueVars, progress, error, layer, controls, subVars, registryVars,
                   nMsgs, histVars>>

\* Model.can_apply_result
can_apply_result == layer # None /\ layers[layer].visible

\* apply_current_result that keeps the reference to the layer it has promoted
apply_current_result_keeps_layer ==
    /\ IF can_apply_result
       THEN /\ layers' = [layers EXCEPT ![layer].locked = FALSE,
                                        ![layer].name = "Generated"]
            /\ last' = Did("apply_current_result", None, FALSE, {"changed"})
       ELSE /\ last' = Did("apply_current_result", None, TRUE, {})
            /\ UNCHANGED layers
    /\ UNCHANGED <<queueVars, progress, error, layer, controls, subVars, registryVars,
                   nMsgs, histVars>>

\* Model.apply_current_result: the assert on can_apply_result, then the preview layer
\* is unlocked, renamed and released
apply_current_result ==
    /\ IF can_apply_result
       THEN /\ layers' = [layers EXCEPT ![layer].locked = FALSE,
                                        ![layer].name = "Generated"]
            /\ layer' = None
            /\ last' = Did("apply_current_result", None, FALSE, {"changed"})
       ELSE /\ last' = Did("apply_current_result", None, TRUE, {})
            /\ UNCHANGED <<layer, layers>>
    /\ UNCHANGED <<queueVars, progress, error, controls, subVars, registryVars, nMsgs,
                   histVars>>

\* the user deletes layer l of the document: the node has no parent any more
delete_layer(l) ==
    /\ l \in 1..Len(layers) /\ layers[l].attached
    /\ layers' = [layers EXCEPT ![l].attached = FALSE]
    /\ last' = Did("delete_layer", None, FALSE, {})
    /\ UNCHANGED <<queueVars, progress, error, layer, controls, subVars, registryVars,
                   nMsgs, histVars>>

(* --------------------------- specification ----------------------------- *)
\* the registry: connection notifications and the life of the dispatch tasks
RegistryNext ==
    \/ \E state \in ConnectionState : connection_changed(state)
    \/ \E t \in 1..Len(tasks), network \in BOOLEAN : stream_raises(t, network)
    \/ \E t \in 1..Len(tasks) : stream_ends(t)
    \/ \E t \in 1..Len(tasks) : backoff_elapsed(t)

SpecRegistry == Init /\ [][RegistryNext]_vars

\* the registry on an event loop that runs: the timer of asyncio.sleep(5) fires, so a
\* sleeping dispatch task is resumed
SpecRegistryFair ==
    /\ Init /\ [][RegistryNext]_vars
    /\ \A t \in 1..MaxConnChanges : WF_vars(backoff_elapsed(t))

\* the state the registry reaches from Init by connection_changed("connected"): the
\* connection is up and dispatch task 1 listens
Connected ==
    /\ entries = <<>>
    /\ memory_usage = 0
    /\ progress = 0
    /\ error = NoError
    /\ layer = None
    /\ layers = <<>>
    /\ controls = [c \in Controls |-> None]
    /\ subs = {}
    /\ nextSub = 1
    /\ nextId = 1
    /\ conn = "connected"
    /\ task = 1
    /\ tasks = <<"listen">>
    /\ nMsgs = 0
    /\ nConn = 1
    /\ order = <<>>
    /\ evicted = {}
    /\ removed = {}
    /\ last = Did("connection_changed", None, FALSE, {})

\* finished messages only
FinishedMessages == {m \in Messages : m.event = "finished"}

\* retention: submissions that succeed or lose their enqueue call, and jobs finishing
\* in any order
RetentionNext ==
    \/ generate(TRUE, TRUE, FALSE)
    \/ \E c \in Controls : generate_control_layer(c, TRUE, TRUE)
    \/ \E s \in subs : run_submission(s, TRUE)
    \/ \E s \in subs : enqueue_returns(s)
    \/ \E s \in subs : enqueue_raises(s, TRUE)
    \/ \E t \in 1..Len(tasks), msg \in FinishedMessages : receive(t, msg)
    \/ \E t \in 1..Len(tasks) : backoff_elapsed(t)

SpecRetention == Connected /\ [][RetentionNext]_vars

\* submissions whose request cannot be built or whose enqueue call fails, under a
\* connection that changes state
SubmitNext ==
    \/ \E ok \in BOOLEAN, has_mask \in BOOLEAN : generate(ok, TRUE, has_mask)
    \/ \E c \in Controls, ok \in BOOLEAN : generate_control_layer(c, ok, TRUE)
    \/ \E s \in subs, built \in BOOLEAN : run_submission(s, built)
    \/ \E s \in subs : enqueue_returns(s)
    \/ \E s \in subs, network \in BOOLEAN : enqueue_raises(s, network)
    \/ \E state \in ConnectionState : connection_changed(state)

SpecSubmit == Init /\ [][SubmitNext]_vars

\* the job state machine: submissions that succeed and every message of the server
MessagesNext ==
    \/ generate(TRUE, TRUE, FALSE)
    \/ \E c \in Controls : generate_control_layer(c, TRUE, TRUE)
    \/ \E s \in subs : run_submission(s, TRUE)
    \/ \E s \in subs : enqueue_returns(s)
    \/ \E t \in 1..Len(tasks), msg \in Messages : receive(t, msg)
    \/ \E t \in 1..Len(tasks) : backoff_elapsed(t)

SpecMessages == Connected /\ [][MessagesNext]_vars

\* submission, connection and dispatch together: each of their operations with every
\* input
Next ==
    \/ \E ok \in BOOLEAN, gathered \in BOOLEAN, has_mask \in BOOLEAN :
          generate(ok, gathered, has_mask)
    \/ \E c \in Controls, ok \in BOOLEAN, gathered \in BOOLEAN :
          generate_control_layer(c, ok, gathered)
    \/ \E s \in subs, built \in BOOLEAN : run_submission(s, built)
    \/ \E s \in subs : enqueue_returns(s)
    \/ \E s \in subs, network \in BOOLEAN : enqueue_raises(s, network)
    \/ \E state \in ConnectionState : connection_changed(state)
    \/ \E t \in 1..Len(tasks), msg \in Messages : receive(t, msg)
    \/ \E t \in 1..Len(tasks), network \in BOOLEAN : stream_raises(t, network)
    \/ \E t \in 1..Len(tasks) : stream_ends(t)
    \/ \E t \in 1..Len(tasks) : backoff_elapsed(t)

Spec == Init /\ [][Next]_vars

\* job ids the server has assigned so far
AssignedIds == 1..(nextId - 1)

\* the preview and the user: jobs of both kinds, every message of the server, the
\* user's cancel and preview operations, and layers the user deletes
PreviewNext ==
    \/ generate(TRUE, TRUE, FALSE)
    \/ \E c \in Controls : generate_control_layer(c, TRUE, TRUE)
    \/ \E s \in subs : run_submission(s, TRUE)
    \/ \E s \in subs : enqueue_returns(s)
    \/ \E t \in 1..Len(tasks), msg \in Messages : receive(t, msg)
    \/ \E t \in 1..Len(tasks) : backoff_elapsed(t)
    \/ cancel
    \/ \E job_id \in AssignedIds : call_show_preview(job_id, 0)
    \/ hide_preview
    \/ apply_current_result
    \/ \E l \in 1..Len(layers) : delete_layer(l)

SpecPreview == Connected /\ [][PreviewNext]_vars

(* ------------------------------ claims --------------------------------- *)
\* sum of the result footprints of the diffusion jobs of a queue
RECURSIVE RetainedFootprint(_)
RetainedFootprint(es) ==
    IF es = <<>> THEN 0
    ELSE (IF Head(es).kind = "diffusion" THEN Head(es).results.size ELSE 0)
         + RetainedFootprint(Tail(es))

\* the jobs of the queue that hold at least one result image
WithResults(es) == {es[i].uid : i \in {k \in 1..Len(es) : es[k].results.n > 0}}

\* position of a Job in the insertion order
Pos(uid) == CHOOSE i \in 1..Len(order) : order[i] = uid

\* the last operation was the handling of a finished message for a diffusion job that
\* is in the queue
FinishedDiffusion ==
    /\ last.op = "finished"
    /\ last.job \in Uids(entries)
    /\ entries[IndexOf(entries, last.job)].kind = "diffusion"

\* C1: the tracked memory footprint equals the sum of the result footprints of the
\* diffusion jobs retained in the queue, after any sequence of submissions and
\* finished messages (a job may receive its results more than once)
C1_MemoryEqualsRetained == memory_usage = RetainedFootprint(entries)

\* C2: after the results of a diffusion job were set and the queue pruned, the
\* footprint is at most the ceiling, unless the job that just finished is the only job
\* of the queue that holds results
C2_CeilingExceptKeep ==
    FinishedDiffusion =>
        \/ memory_usage <= HistorySize
        \/ WithResults(entries) \subseteq {last.job}

\* C3: handling the results of a diffusion job (set_results, then prune with that job
\* as keep) never removes that job from the queue, whatever the footprint
C3_PruneKeepsKeep ==
    [][\A i \in 1..Len(entries) :
          (entries[i].kind = "diffusion" /\ last'.op = "finished"
           /\ last'.job = entries[i].uid)
          => entries[i].uid \in Uids(entries')]_vars

\* C3 witness: prune has evicted every other job, the footprint is still above the
\* ceiling and keep is the one job left
C3_Witness ==
    /\ FinishedDiffusion
    /\ evicted # {}
    /\ memory_usage > HistorySize
    /\ Uids(entries) = {last.job}

\* C5 scenario: two diffusion jobs, the first finished with 80MB, and the second now
\* finishes with 90MB: only the second is left, with a footprint of 90MB
C5_Scenario ==
    (/\ Len(entries) = 2
     /\ entries[1].kind = "diffusion" /\ entries[2].kind = "diffusion"
     /\ entries[1].state = "finished" /\ entries[1].results.size = 80
     /\ entries[2].results = EmptyResults
     /\ memory_usage = 80
     /\ last'.op = "finished" /\ last'.job = entries[2].uid
     /\ 90 \in {entries'[k].results.size : k \in 1..Len(entries')})
    => /\ Uids(entries') = {entries[2].uid}
       /\ memory_usage' = 90

C6_NoControlEvicted == \A e \in evicted : e.kind # "control_layer"

\* C4: a Job seen in state finished or cancelled keeps that state for as long as it
\* is in the queue, whatever message arrives for its id
C4_TerminalStatesStay ==
    [][\A i \in 1..Len(entries) :
          entries[i].state \in {"finished", "cancelled"}
          => \A k \in 1..Len(entries') :
                entries'[k].uid = entries[i].uid => entries'[k].state = entries[i].state]_vars

\* C7 as stated: find with a string id never returns a control job, and find with a
\* control spec never returns a diffusion job
C7_FindSeparatesKinds ==
    /\ \A id \in AssignedIds :
          LET i == find(entries, [type |-> "str", v |-> id]) IN
          i # 0 => entries[i].kind # "control_layer"
    /\ \A c \in Controls :
          LET i == find(entries, [type |-> "control", v |-> c]) IN
          i # 0 => entries[i].kind # "diffusion"

\* C7 amended: find with a control spec returns only control jobs (never a diffusion
\* job); find with a string id returns a job of either kind that carries this id, and a
\* control job only once its enqueue call has returned and attached the id
C7_FindByKind ==
    /\ \A c \in Controls :
          LET i == find(entries, [type |-> "control", v |-> c]) IN
          i # 0 => entries[i].kind = "control_layer" /\ entries[i].control = c
    /\ \A id \in AssignedIds :
          LET i == find(entries, [type |-> "str", v |-> id]) IN
          i # 0 => /\ entries[i].id = id
                   /\ entries[i].kind = "control_layer"
                      => \A s \in subs : s.job # entries[i].uid

\* C7 witness: behind a diffusion job, the queue holds a control job that find
\* returns both for its control spec and for its string id
C7_Witness ==
    \E c \in Controls, id \in AssignedIds :
        LET i == find(entries, [type |-> "control", v |-> c]) IN
        /\ i > 1
        /\ entries[1].kind = "diffusion"
        /\ find(entries, [type |-> "str", v |-> id]) = i

\* C8: after a submission failed (gathering its inputs, building its request or in
\* the enqueue call) the failure is in Model.error and no Job of it is in the queue
C8_FailedSubmissionLeavesNoJob ==
    (last.raised /\ last.op \in {"generate", "generate_control_layer", "build_failed",
                                 "enqueue_failed"})
    => /\ error \in {NetworkErrorText, ExceptionText}
       /\ last.job \notin Uids(entries)

\* the Job a diffusion submission s appends when its enqueue call returns
Enqueued(s) ==
    [uid |-> s.n, id |-> s.sid, kind |-> "diffusion", state |-> "queued",
     bounds |-> s.bounds, control |-> None, results |-> EmptyResults]

\* C9: when the enqueue call of a diffusion submission returns, exactly one Job is
\* appended: a queued diffusion job with the submission's region and no results; and
\* diffusion jobs enter the queue in no other way, also when submissions overlap
C9_OneJobPerSubmission ==
    [][/\ \A s \in subs :
             (s.kind = "diffusion" /\ s.pc = "await" /\ s \notin subs'
              /\ last'.op = "enqueued")
             => entries' = Append(entries, Enqueued(s))
       /\ Len(entries') > Len(entries)
          => \/ last'.op = "generate_control_layer"
             \/ /\ last'.op = "enqueued"
                /\ Len(entries') = Len(entries) + 1
                /\ \E s \in subs \ subs' : s.kind = "diffusion"]_vars

\* C9 witness: two overlapping diffusion submissions (the second one's enqueue call
\* returned first) have made two Jobs
C9_Witness ==
    /\ Len(entries) = 2
    /\ entries[1].kind = "diffusion" /\ entries[2].kind = "diffusion"
    /\ entries[1].uid = 2 /\ entries[2].uid = 1
    /\ entries[1].id # entries[2].id
    /\ last.op = "enqueued"

\* dispatch tasks that were created and not cancelled
LiveTasks == {t \in 1..Len(tasks) : tasks[t] # "cancelled"}

\* C10: at most one dispatch task exists; a task is created only when none exists and
\* the connection is connected; after a notification of the disconnected state none
\* exists
C10_OneDispatchTask ==
    /\ [](/\ Cardinality(LiveTasks) <= 1
          /\ (last.op = "connection_changed" /\ conn = "disconnected")
             => LiveTasks = {})
    /\ [][Len(tasks') > Len(tasks) => (LiveTasks = {} /\ conn' = "connected")]_vars

\* C10 witness: after a repeated notification of the connected state and a
\* disconnect, a second task was created and is the only one
C10_Witness ==
    /\ Len(tasks) = 2
    /\ LiveTasks = {2}
    /\ task = 2
    /\ nConn = 4

\* C11: an interrupted message handled for a job in state executing puts the job in
\* state cancelled and the Model's progress at 0; the job's results are what they were
\* (empty for a job that never finished) and the job is still in the queue
C11_InterruptedCancels ==
    [][\A i \in 1..Len(entries) :
          (entries[i].state = "executing" /\ last'.op = "interrupted"
           /\ last'.job = entries[i].uid)
          => /\ entries' = [entries EXCEPT ![i].state = "cancelled"]
             /\ memory_usage' = memory_usage
             /\ progress' = 0]_vars

\* an executing job without results was interrupted
C11_Witness ==
    /\ last.op = "interrupted" /\ last.from = "executing"
    /\ \E i \in 1..Len(entries) :
          /\ entries[i].uid = last.job
          /\ entries[i].state = "cancelled"
          /\ entries[i].results = EmptyResults
    /\ progress = 0

\* C12: handling a finished message for a control-kind job removes the job from the
\* queue and sets the image of its control spec: to the document's active layer when
\* the message carries no result, to a layer created from the first result otherwise
C12_ControlFinished ==
    [][\A t \in 1..Len(tasks), msg \in FinishedMessages, i \in 1..Len(entries) :
          (/\ entries[i].kind = "control_layer"
           /\ find(entries, [type |-> "str", v |-> msg.job_id]) = i
           /\ receive(t, msg))
          => /\ entries[i].uid \notin Uids(entries')
             /\ IF msg.images.n = 0
                THEN controls'[entries[i].control] = ActiveLayer
                ELSE /\ controls'[entries[i].control] \in (Len(layers) + 1)..Len(layers')
                     /\ layers'[controls'[entries[i].control]].content = entries[i].uid]_vars

\* C13: handling a finished message addressed to a job of the queue, whatever the
\* number of its result images, runs to completion: no exception, the job (when it is
\* still in the queue) is finished, progress is 1 and both the job-finished and the
\* state-changed notification are emitted
C13_FinishedCompletes ==
    last.op = "finished"
    => /\ ~last.raised
       /\ \A i \in 1..Len(entries) :
             entries[i].uid = last.job => entries[i].state = "finished"
       /\ progress = 100
       /\ {"job_finished", "changed"} \subseteq last.signals

\* C14: a message whose job id is in no Model's queue is dropped: the jobs, the
\* retained footprint, progress, error text and preview of the Model stay as they
\* are, nothing is raised or reported, and the dispatch task keeps listening
C14_UnknownJobDropped ==
    [][(last'.op = "dropped" /\ nMsgs' # nMsgs)
       => /\ find(entries, [type |-> "str", v |-> last'.job]) = 0
          /\ UNCHANGED <<entries, memory_usage, progress, error, layer, layers,
                         controls, tasks>>
          /\ ~last'.raised /\ last'.signals = {}
          /\ \E t \in 1..Len(tasks) : tasks[t] = "listen" /\ tasks'[t] = "listen"]_vars

\* a message was dropped while the queue holds jobs, and the task still listens
C14_Witness ==
    /\ last.op = "dropped" /\ ~last.raised
    /\ entries # <<>>
    /\ task # None /\ tasks[task] = "listen"

\* dispatch task t exists and is at one of the positions S
TaskIn(t, S) == t \in 1..Len(tasks) /\ tasks[t] \in S

C16_StateChangesInHandleMessage ==
    [][/\ (\E i \in 1..Len(entries), k \in 1..Len(entries') :
              entries[i].uid = entries'[k].uid /\ entries[i].state # entries'[k].state)
          => (/\ last'.op \in ClientEvent
              /\ \A i \in 1..Len(entries), k \in 1..Len(entries') :
                    (entries[i].uid = entries'[k].uid
                     /\ entries[i].state # entries'[k].state)
                    => last'.job = entries[i].uid)
       /\ last'.op \in {"cancel", "show_preview", "hide_preview",
                        "apply_current_result"}
          => entries' = entries]_vars

\* cancel() was called while a job was executing, and the job is still executing
C16_Witness ==
    /\ last.op = "cancel"
    /\ \E i \in 1..Len(entries) : entries[i].state = "executing"

\* preview layers that are in the document
AttachedPreviews ==
    {l \in 1..Len(layers) : layers[l].name = "Preview" /\ layers[l].attached}

\* C17: the Model refers to at most one preview layer, the only layer of the document
\* that can be a preview; apply_current_result goes through only when the Model has
\* a preview reference whose layer is visible, and then unlocks that layer, marks it
\* generated and drops the reference; a layer that was accepted is never written to
\* again, and show_preview without a usable reference creates a new, locked layer
C17_OnePreview ==
    /\ [](/\ layer # None => layer \in 1..Len(layers)
          /\ Cardinality(AttachedPreviews) <= 1
          /\ AttachedPreviews \subseteq {layer})
    /\ [][/\ (last'.op = "apply_current_result" /\ ~last'.raised)
             => /\ can_apply_result
                /\ layer' = None
                /\ layers' = [layers EXCEPT ![layer].locked = FALSE,
                                            ![layer].name = "Generated"]
          /\ \A l \in 1..Len(layers) :
                layers[l].name = "Generated"
                => /\ layer' # l
                   /\ layers'[l].name = "Generated"
                   /\ layers'[l].content = layers[l].content
                   /\ layers'[l].locked = layers[l].locked
          /\ (last'.op = "show_preview" /\ ~last'.raised
              /\ (layer = None \/ ~layers[layer].attached))
             => /\ layer' = Len(layers) + 1
                /\ layers' = Append(layers, layers'[layer'])
                /\ layers'[layer'].locked /\ layers'[layer'].name = "Preview"]_vars

\* a preview was accepted and the next show_preview made a new locked preview layer
C17_Witness ==
    /\ last.op = "show_preview" /\ ~last.raised
    /\ layer # None /\ layers[layer].locked /\ layers[layer].name = "Preview"
    /\ \E l \in 1..Len(layers) :
          l # layer /\ layers[l].name = "Generated" /\ ~layers[l].locked

\* C18: memory-based retention evicts only jobs in a terminal state: a job that prune
\* discarded was finished or cancelled, never queued or executing
C18_OnlyTerminalEvicted ==
    \A e \in evicted : e.state \in {"finished", "cancelled"}

\* C19: no message the server emits for the id of a submission whose enqueue call
\* succeeds is dropped: a step in which client.enqueue returns an id never follows
\* the dropping of a message for that id
C19_NoMessageLost ==
    [][~(/\ last.op = "dropped"
         /\ last'.op = "enqueued"
         /\ \E s \in subs \ subs' : s.pc = "await" /\ s.sid = last.job)]_vars

\* C20: after a finished message with at least one result is handled for a diffusion
\* job (one that is queued or executing: its first finished message) while the Model has no usable preview layer (no reference, or a reference to a
\* layer that was removed from the document), the Model refers to an attached preview
\* layer created from the first result of that job
C20_FinishedShowsPreview ==
    [][\A t \in 1..Len(tasks), msg \in FinishedMessages, i \in 1..Len(entries) :
          (/\ entries[i].kind = "diffusion"
           /\ entries[i].state \in {"queued", "executing"}
           /\ find(entries, [type |-> "str", v |-> msg.job_id]) = i
           /\ msg.images.n >= 1
           /\ (layer = None \/ ~layers[layer].attached)
           /\ receive(t, msg))
          => /\ layer' \in (Len(layers) + 1)..Len(layers')
             /\ layers'[layer'].attached
             /\ layers'[layer'].name = "Preview"
             /\ layers'[layer'].content = entries[i].uid]_vars

=============================================================================
